---- MODULE Spec2Model ----
(***************************************************************************)
(* A model of anime-organizer-rs: the Copy-mode watcher with its Movers    *)
(* (src/src/copy_watcher.rs), the Mirror-mode watcher with its startup     *)
(* reconciliation (src/src/sync_watcher.rs) and the task set of main       *)
(* (src/src/main.rs).                                                      *)
(*                                                                         *)
(* A file name is a sequence of string tokens (<<"ep", ".mkv">> is the     *)
(* name ep.mkv, <<"ep", ".mkv", ".partial">> is ep.mkv.partial), a path is *)
(* a sequence of names.  "The name ends with the suffix" and "the path     *)
(* ends with the component" are then two different tests, as they are in   *)
(* Rust (str::ends_with against Path::ends_with).                          *)
(***************************************************************************)
EXTENDS Naturals, Sequences, FiniteSets, TLC

VARIABLES
    fs,             \* the filesystem: path -> [kind, size]
    task,           \* root id -> state of the task main spawned for it; its
                    \* domain is the roots of the configuration file
    main_state,     \* "joining" while join_all waits, "panicked" after it
    chan_open,      \* root id -> the sender half (owned by the callback) lives
    chan,           \* root id -> the events sent and not yet received
    detected_files, \* DETECTED_FILES
    moved_files,    \* MOVED_FILES
    movers,         \* the Mover tasks spawned so far, in spawn order
    notified,       \* notifications delivered so far (bounded)
    failures        \* injected I/O failures so far (bounded)

vars == <<fs, task, main_state, chan_open, chan, detected_files,
          moved_files, movers, notified, failures>>

----------------------------------------------------------------------------
(* Bounds *)

MaxEvents == 2

MaxFailures == 1

----------------------------------------------------------------------------
(* Names and paths *)

PARTIAL == <<".partial">>

Last(s) == s[Len(s)]

Parent(p) == SubSeq(p, 1, Len(p) - 1)

IsSuffixOf(t, s) ==
    /\ Len(t) <= Len(s)
    /\ \A i \in 1..Len(t) : s[Len(s) - Len(t) + i] = t[i]

IsPrefixOf(t, s) ==
    /\ Len(t) <= Len(s)
    /\ \A i \in 1..Len(t) : s[i] = t[i]

\* Path::ends_with(child): whole components only.  `child` is the string
\* the code passes, parsed as a path of one component.
PathEndsWith(path, child) == IsSuffixOf(<<child>>, path)

\* Path::strip_prefix(base)
StripPrefix(path, base) == SubSeq(path, Len(base) + 1, Len(path))

\* Path::join / PathBuf::push of a relative path
Join(base, rel) == base \o rel

\* the element of a set of one element
Only(S) == CHOOSE x \in S : TRUE

RECURSIVE SetToSeq(_)
SetToSeq(S) ==
    IF S = {} THEN <<>>
    ELSE Only({<<x>> \o SetToSeq(S \ {x}) : x \in {CHOOSE y \in S : TRUE}})

----------------------------------------------------------------------------
(* The filesystem primitives the program calls *)

File(n) == [kind |-> "file", size |-> n]

Dir == [kind |-> "dir", size |-> 0]

Exists(f, p) == p \in DOMAIN f

IsDir(f, p) == p = <<>> \/ (p \in DOMAIN f /\ f[p].kind = "dir")

IsFile(f, p) == p \in DOMAIN f /\ f[p].kind = "file"

\* std::fs::read_dir(p): the entries directly in p
ReadDir(f, p) == {q \in DOMAIN f : Len(q) = Len(p) + 1 /\ Parent(q) = p}

Under(f, p) == {q \in DOMAIN f : IsPrefixOf(p, q)}

Put(f, p, node) ==
    [q \in DOMAIN f \cup {p} |-> IF q = p THEN node ELSE f[q]]

Del(f, S) == [q \in DOMAIN f \ S |-> f[q]]

Ancestors(p) == {SubSeq(p, 1, i) : i \in 1..Len(p)}

\* std::fs::create_dir_all(p): fails when a component exists as a file.
CanCreateDirAll(f, p) == \A a \in Ancestors(p) : ~IsFile(f, a)

CreateDirAll(f, p) ==
    [q \in DOMAIN f \cup Ancestors(p) |-> IF q \in DOMAIN f THEN f[q] ELSE Dir]

\* std::fs::copy(from, to): `from` is a regular file, the parent of `to` is
\* a directory and `to` is no directory; `to` is created or overwritten.
CanCopy(f, from, to) ==
    /\ IsFile(f, from)
    /\ IsDir(f, Parent(to))
    /\ ~(Exists(f, to) /\ IsDir(f, to))

copy_file_Moves(f, from, to) == Del(Put(f, to, f[from]), {from})

\* crate::copy_file: std::fs::copy on the blocking pool
copy_file(f, from, to) == Put(f, to, f[from])

----------------------------------------------------------------------------
(* The configuration: roots 1 and 2 are Copy roots watching the same source *)
(* directory, root 3 is a Sync (Mirror) root.                               *)

Src == <<<<"src">>>>

PathConfigs ==
    1 :> [source |-> Src, destination |-> <<<<"dst1">>>>,
          place_in_sub |-> TRUE, watcher_type |-> "Copy"]
 @@ 2 :> [source |-> Src, destination |-> <<<<"dst2">>>>,
          place_in_sub |-> FALSE, watcher_type |-> "Copy"]
 @@ 3 :> [source |-> Src, destination |-> <<<<"dst">>>>,
          place_in_sub |-> FALSE, watcher_type |-> "Sync"]

CopyRoots == {r \in DOMAIN PathConfigs : PathConfigs[r].watcher_type = "Copy"}

SyncRoots == {r \in DOMAIN PathConfigs : PathConfigs[r].watcher_type = "Sync"}

----------------------------------------------------------------------------
(* Copy mode: the objects of the source tree *)

Batch == Join(Src, <<<<"batch">>>>)

Season == Join(Batch, <<<<"s1">>>>)

Episode == <<"Show", " - 01", ".mkv">>

NestedEpisode == Join(Season, <<Episode>>)

TopEpisode == Join(Src, <<Episode>>)

\* a download in progress, named as the writer names it: <file>.partial
EpisodeMarker == Join(Season, <<Episode \o PARTIAL>>)

\* an object whose whole name is .partial
BareMarker == Join(Season, <<PARTIAL>>)

Markers == {EpisodeMarker, BareMarker}

CopySourceTree ==
    Src :> Dir @@ Batch :> Dir @@ Season :> Dir
    @@ NestedEpisode :> File(1) @@ TopEpisode :> File(1)

\* anitomy::parse(name) ... find(Title): the library is outside the
\* repository; here a name has a title exactly when it starts with a title
\* word, and the title is that word.
TitleWords == {"Show"}

get_title(detected_file) ==
    LET name == Last(detected_file)
    IN  IF name[1] \in TitleWords THEN <<<<name[1]>>>> ELSE <<>>

----------------------------------------------------------------------------
(* Copy mode: CopyWatcher *)

\* Mover::new
NewMover(destination, detected_file, subfolder) ==
    [destination |-> destination, detected_file |-> detected_file,
     subfolder |-> subfolder, title |-> get_title(detected_file),
     state |-> "detected", to |-> <<>>]

\* the guard of the loop of CopyWatcher::copy_file: the path is skipped
SkipsNoDedup(path, detected) == PathEndsWith(path, PARTIAL)

Skips(path, detected) == PathEndsWith(path, PARTIAL) \/ path \in detected

RECURSIVE CopyFileLoop(_, _, _, _)
CopyFileLoop(r, paths, detected, spawned) ==
    IF paths = <<>> THEN [detected_files |-> detected, movers |-> spawned]
    ELSE LET path == Head(paths)
         IN  IF Skips(path, detected)
             THEN CopyFileLoop(r, Tail(paths), detected, spawned)
             ELSE CopyFileLoop(r, Tail(paths), detected \cup {path},
                      Append(spawned,
                             NewMover(PathConfigs[r].destination, path,
                                      PathConfigs[r].place_in_sub)))

----------------------------------------------------------------------------
(* Copy mode: Mover *)

DestinationFolder_AnyTitle(m) ==
    IF m.title # <<>> THEN Join(m.destination, m.title) ELSE m.destination

\* the folder Mover::setup_destination_folder creates
DestinationFolder(m) ==
    IF m.title # <<>> /\ m.subfolder
    THEN Join(m.destination, m.title)
    ELSE m.destination

\* the path Mover::setup_destination_folder returns
setup_destination_folder(m) ==
    Join(DestinationFolder(m), <<Last(m.detected_file)>>)

\* create_folder: nothing when the folder exists; a failure of
\* create_dir_all (ok = FALSE, or a component that is a file) is logged.
create_folder(f, folder, ok) ==
    IF Exists(f, folder) THEN f
    ELSE IF ok /\ CanCreateDirAll(f, folder) THEN CreateDirAll(f, folder)
    ELSE f

RECURSIVE is_downloading(_, _)
is_downloading(f, file) ==
    IF Exists(f, file) /\ IsDir(f, file)
    THEN \/ \E e \in ReadDir(f, file) : PathEndsWith(e, PARTIAL)
         \/ \E e \in ReadDir(f, file) : IsDir(f, e) /\ is_downloading(f, e)
    ELSE FALSE

\* The filesystem calls of copy_dir_all(src, dst) in the order it makes them:
\* create_dir_all(dst), then one step per entry of read_dir(src), depth
\* first.  read_dir's order is the filesystem's; SetToSeq fixes one.
RECURSIVE DirOps(_, _, _)
RECURSIVE EntryOps(_, _, _)
DirOps(f, src, dst) ==
    <<[op |-> "mkdir", from |-> src, to |-> dst]>>
        \o Only({EntryOps(f, entries, dst) :
                    entries \in {SetToSeq(ReadDir(f, src))}})

EntryOps(f, entries, dst) ==
    IF entries = <<>> THEN <<>>
    ELSE LET e == Head(entries)
             to == Join(dst, <<Last(e)>>)
         IN  (IF IsDir(f, e) THEN DirOps(f, e, to)
              ELSE <<[op |-> "copy", from |-> e, to |-> to]>>)
             \o EntryOps(f, Tail(entries), dst)

\* one filesystem call of a copy: whether it succeeds, and what it leaves
CanRun(f, o) ==
    IF o.op = "mkdir" THEN CanCreateDirAll(f, o.to) ELSE CanCopy(f, o.from, o.to)

RunOp(f, o) ==
    IF o.op = "mkdir" THEN CreateDirAll(f, o.to) ELSE copy_file(f, o.from, o.to)

\* Runs the calls from the i-th on; the `?` of the code returns at the first
\* that fails.  failAt is the call an I/O error is injected into (0: none).
RECURSIVE RunOps(_, _, _, _)
RunOps(f, ops, failAt, i) ==
    IF i > Len(ops) THEN [ok |-> TRUE, fs |-> f]
    ELSE IF i = failAt \/ ~CanRun(f, ops[i]) THEN [ok |-> FALSE, fs |-> f]
    ELSE Only({RunOps(g, ops, failAt, i + 1) : g \in {RunOp(f, ops[i])}})

\* the calls of one attempt of Mover::perform_move
MoveOps(f, m) ==
    IF Exists(f, m.detected_file) /\ IsDir(f, m.detected_file)
    THEN DirOps(f, m.detected_file, m.to)
    ELSE <<[op |-> "copy", from |-> m.detected_file, to |-> m.to]>>

\* the state of the Mover after the probe of perform_move: `continue` goes
\* back to the sleep
AfterProbe(downloading) == IF downloading THEN "waiting" ELSE "copying"

AfterCopy_GivesUp(ok) == IF ok THEN "done" ELSE "failed"

\* the state of the Mover after a copy attempt of perform_move
AfterCopy(ok) == IF ok THEN "done" ELSE "waiting"

Record_EveryAttempt(moved, ok, to) == moved \cup {to}

\* MOVED_FILES after a copy attempt of perform_move
Record(moved, ok, to) == IF ok THEN moved \cup {to} ELSE moved

----------------------------------------------------------------------------
(* main: one task per root in a JoinSet, awaited by join_all *)

\* the runtime lives while main awaits join_all
Alive == main_state = "joining"

\* the task of a root after start() returned: expect() panics on Err
AfterStart(result_ok) == IF result_ok THEN "finished" ELSE "panicked"

\* JoinSet::join_all: a task that panicked makes join_all panic, which drops
\* the JoinSet and aborts the tasks still in it.
JoinAllOutcome(t) ==
    IF \E r \in DOMAIN t : t[r] = "panicked" THEN "panicked" ELSE "returned"

AfterJoinAll(t) ==
    [r \in DOMAIN t |->
        IF t[r] \in {"spawned", "running"} THEN "cancelled" ELSE t[r]]

MainJoinAll ==
    /\ Alive
    /\ \/ \E r \in DOMAIN task : task[r] = "panicked"
       \/ \A r \in DOMAIN task : task[r] = "finished"
    /\ main_state' = JoinAllOutcome(task)
    /\ task' = AfterJoinAll(task)
    /\ UNCHANGED <<fs, chan_open, chan, detected_files, moved_files, movers,
                   notified, failures>>

----------------------------------------------------------------------------
(* Copy mode: actions *)

\* CopyWatcher::start up to the receive loop: the watcher is created and
\* attached (ok), or recommended_watcher / watch returns Err.
CopyWatcherStart(r, ok) ==
    /\ Alive
    /\ r \in DOMAIN task /\ r \in CopyRoots
    /\ task[r] = "spawned"
    /\ task' = [task EXCEPT ![r] = IF ok THEN "running" ELSE AfterStart(FALSE)]
    /\ chan_open' = [chan_open EXCEPT ![r] = ok]
    /\ UNCHANGED <<fs, main_state, chan, detected_files, moved_files, movers,
                   notified, failures>>

\* the objects the recursive watch of the source reports
Watched(f, r) == Under(f, PathConfigs[r].source) \ {PathConfigs[r].source}

EventPaths(f, r) ==
    {<<p>> : p \in Watched(f, r)}
        \cup {<<p, p>> : p \in Watched(f, r)}

\* the callback of the watcher is given Ok(event) of kind Create and sends
\* it; events of other kinds are dropped by the callback.
NotifyCreate(r, paths) ==
    /\ r \in DOMAIN task /\ r \in CopyRoots
    /\ task[r] = "running" /\ chan_open[r]
    /\ notified < MaxEvents
    /\ notified' = notified + 1
    /\ chan' = [chan EXCEPT ![r] = Append(@, [kind |-> "Create", paths |-> paths])]
    /\ UNCHANGED <<fs, task, main_state, chan_open, detected_files,
                   moved_files, movers, failures>>

\* the callback is given Err: event.unwrap() panics in the watcher's thread,
\* which drops the callback and with it the sender.
NotifyError(r) ==
    /\ r \in DOMAIN task
    /\ task[r] = "running" /\ chan_open[r]
    /\ chan_open' = [chan_open EXCEPT ![r] = FALSE]
    /\ UNCHANGED <<fs, task, main_state, chan, detected_files, moved_files,
                   movers, notified, failures>>

CopyWatcherRecv_AwaitsMovers(r) ==
    /\ Alive
    /\ r \in DOMAIN task /\ r \in CopyRoots
    /\ task[r] = "running"
    /\ chan[r] # <<>>
    /\ \A i \in DOMAIN movers : movers[i].state = "done"
    /\ LET out == CopyFileLoop(r, Head(chan[r]).paths, detected_files, movers)
       IN  /\ detected_files' = out.detected_files
           /\ movers' = out.movers
    /\ chan' = [chan EXCEPT ![r] = Tail(@)]
    /\ UNCHANGED <<fs, task, main_state, chan_open, moved_files, notified,
                   failures>>

\* one turn of the receive loop of CopyWatcher::start: copy_file(event.paths)
CopyWatcherRecv(r) ==
    /\ Alive
    /\ r \in DOMAIN task /\ r \in CopyRoots
    /\ task[r] = "running"
    /\ chan[r] # <<>>
    /\ LET out == CopyFileLoop(r, Head(chan[r]).paths, detected_files, movers)
       IN  /\ detected_files' = out.detected_files
           /\ movers' = out.movers
    /\ chan' = [chan EXCEPT ![r] = Tail(@)]
    /\ UNCHANGED <<fs, task, main_state, chan_open, moved_files, notified,
                   failures>>

\* rx.recv() returns None: the loop ends and start returns Ok(())
WatcherClosed(r) ==
    /\ Alive
    /\ r \in DOMAIN task
    /\ task[r] = "running"
    /\ chan[r] = <<>> /\ ~chan_open[r]
    /\ task' = [task EXCEPT ![r] = AfterStart(TRUE)]
    /\ UNCHANGED <<fs, main_state, chan_open, chan, detected_files,
                   moved_files, movers, notified, failures>>

\* Mover::start up to the loop of perform_move
MoverStart(i, ok) ==
    /\ Alive
    /\ movers[i].state = "detected"
    /\ LET m == movers[i]
           folder == DestinationFolder(m)
       IN  /\ ~ok => /\ ~Exists(fs, folder)
                     /\ CanCreateDirAll(fs, folder)
                     /\ failures < MaxFailures
           /\ failures' = IF ok THEN failures ELSE failures + 1
           /\ fs' = create_folder(fs, folder, ok)
           /\ movers' = [movers EXCEPT ![i].to = setup_destination_folder(m),
                                       ![i].state = "waiting"]
    /\ UNCHANGED <<task, main_state, chan_open, chan, detected_files,
                   moved_files, notified>>

\* tokio::time::sleep(wait_time) elapses, then is_downloading(&self.detected_file)
MoverProbe(i) ==
    /\ Alive
    /\ movers[i].state = "waiting"
    /\ movers' = [movers EXCEPT
           ![i].state = AfterProbe(is_downloading(fs, movers[i].detected_file))]
    /\ UNCHANGED <<fs, task, main_state, chan_open, chan, detected_files,
                   moved_files, notified, failures>>

\* one copy attempt: copy_dir_all or copy_file, then the end of the loop
MoverCopy(i, failAt) ==
    /\ Alive
    /\ movers[i].state = "copying"
    /\ failAt # 0 => failures < MaxFailures
    /\ \E ops \in {MoveOps(fs, movers[i])} :
           /\ failAt \in 0..Len(ops)
           /\ \E out \in {RunOps(fs, ops, failAt, 1)} :
                  /\ fs' = out.fs
                  /\ movers' = [movers EXCEPT ![i].state = AfterCopy(out.ok)]
                  /\ moved_files' = Record(moved_files, out.ok, movers[i].to)
    /\ failures' = IF failAt # 0 THEN failures + 1 ELSE failures
    /\ UNCHANGED <<task, main_state, chan_open, chan, detected_files, notified>>

\* the external writer starts a download (creates a marker) or finishes one
\* (removes it)
WriterMarker(p) ==
    /\ p \in Markers
    /\ fs' = IF Exists(fs, p) THEN Del(fs, {p}) ELSE Put(fs, p, File(1))
    /\ UNCHANGED <<task, main_state, chan_open, chan, detected_files,
                   moved_files, movers, notified, failures>>

\* the state after main spawned the tasks of the roots `roots` of the
\* configuration file, over the filesystem f
InitWith(roots, f) ==
    /\ fs = f
    /\ task = [r \in roots |-> "spawned"]
    /\ main_state = "joining"
    /\ chan_open = [r \in roots |-> FALSE]
    /\ chan = [r \in roots |-> <<>>]
    /\ detected_files = {}
    /\ moved_files = {}
    /\ movers = <<>>
    /\ notified = 0
    /\ failures = 0

\* the configuration file names root 1
InitCopy == InitWith({1}, CopySourceTree)

\* the configuration file names both Copy roots
InitMain == InitWith(CopyRoots, CopySourceTree)

MoverStep(i) ==
    \/ \E ok \in BOOLEAN : MoverStart(i, ok)
    \/ MoverProbe(i)
    \/ \E failAt \in 0..8 : MoverCopy(i, failAt)

\* Copy mode while every watcher attaches and the notification facility
\* reports no error
NextCopy ==
    \/ \E r \in CopyRoots : CopyWatcherStart(r, TRUE)
    \/ \E r \in CopyRoots : \E paths \in EventPaths(fs, r) : NotifyCreate(r, paths)
    \/ \E r \in CopyRoots : CopyWatcherRecv(r)
    \/ \E i \in DOMAIN movers : MoverStep(i)
    \/ \E p \in Markers : WriterMarker(p)

SpecCopy == InitCopy /\ [][NextCopy]_vars

\* Copy mode with the failures of the watchers and main's join_all
NextMain ==
    \/ NextCopy
    \/ \E r \in CopyRoots : CopyWatcherStart(r, FALSE)
    \/ \E r \in CopyRoots : NotifyError(r)
    \/ \E r \in CopyRoots : WatcherClosed(r)
    \/ MainJoinAll

SpecMain == InitMain /\ [][NextMain]_vars

----------------------------------------------------------------------------
(* One Mover on every input: the detected object, the destination and the  *)
(* placement flag of its root, and what the title extraction answered.     *)

TitleResults == {<<>>, <<<<"Show">>>>, <<<<"batch">>>>}

InitMover ==
    \E r \in CopyRoots, sub \in BOOLEAN, title \in TitleResults :
        \E path \in Watched(CopySourceTree, r) \cup Markers :
            /\ fs \in {CopySourceTree, Put(CopySourceTree, BareMarker, File(1))}
            /\ task = [x \in {r} |-> "running"]
            /\ main_state = "joining"
            /\ chan_open = [x \in {r} |-> TRUE]
            /\ chan = [x \in {r} |-> <<>>]
            /\ detected_files = {path}
            /\ moved_files = {}
            /\ movers = <<[NewMover(PathConfigs[r].destination, path, sub)
                              EXCEPT !.title = title]>>
            /\ notified = 0
            /\ failures = 0

NextMover ==
    \/ MoverStep(1)
    \/ \E p \in Markers : WriterMarker(p)

SpecMover == InitMover /\ [][NextMover]_vars

\* the runtime schedules the Mover's task again and again
SpecMoverFair == SpecMover /\ WF_vars(MoverStep(1))

----------------------------------------------------------------------------
(* Mirror mode: the objects of the two trees *)

DirA == <<<<"a">>>>

FileB == <<<<"a">>, <<"b", ".txt">>>>

FileC == <<<<"c", ".txt">>>>

Sizes == {1, 2}

NoObjects == [p \in {} |-> Dir]

\* what a tree can hold at startup: a/ absent, empty or with b.txt, and
\* c.txt absent or present, the files of either size
TreesAt(root) ==
    {(root :> Dir) @@ a @@ c :
        a \in {NoObjects, Join(root, DirA) :> Dir}
                \cup {Join(root, DirA) :> Dir @@ Join(root, FileB) :> File(n) :
                          n \in Sizes},
        c \in {NoObjects} \cup {Join(root, FileC) :> File(n) : n \in Sizes}}

----------------------------------------------------------------------------
(* Mirror mode: SyncWatcher *)

\* the path of the mirrored object in the destination tree
Mirrored(r, path) ==
    Join(PathConfigs[r].destination, StripPrefix(path, PathConfigs[r].source))

\* From<DirEntry> for FileCompare: entry.path() is the path WalkDir built
\* by joining the entry's name onto the root it was given
FileCompare(f, p) == [path |-> p, size |-> f[p].size]

\* SyncWatcher::scan_dir: the regular files WalkDir finds under dir
scan_dir(f, dir) == {FileCompare(f, p) : p \in {q \in Under(f, dir) : IsFile(f, q)}}

\* the removal remove_difference makes for one FileCompare
RemoveOne(f, fc) ==
    IF IsDir(f, fc.path) THEN Del(f, Under(f, fc.path)) ELSE Del(f, {fc.path})

\* SyncWatcher::remove_difference over base.difference(other) in the order
\* `todo`; remove_file fails (and unwrap panics) when the file is gone, or at
\* the failAt-th removal when an I/O error is injected (0: none).
RECURSIVE RemoveAll(_, _, _, _)
RemoveAll(f, todo, failAt, i) ==
    IF i > Len(todo) THEN [ok |-> TRUE, fs |-> f]
    ELSE IF i = failAt \/ ~Exists(f, todo[i].path) THEN [ok |-> FALSE, fs |-> f]
    ELSE Only({RemoveAll(g, todo, failAt, i + 1) : g \in {RemoveOne(f, todo[i])}})

\* the removals of SyncWatcher::sync_dirs, the destination's first
SyncRemovals(f, r) ==
    LET source_list == scan_dir(f, PathConfigs[r].source)
        destination_list == scan_dir(f, PathConfigs[r].destination)
    IN  SetToSeq(destination_list \ source_list)
            \o SetToSeq(source_list \ destination_list)

\* SyncWatcher::sync_dirs
SyncDirs(r, failAt) ==
    /\ Alive
    /\ r \in DOMAIN task /\ r \in SyncRoots
    /\ task[r] = "spawned"
    /\ failAt # 0 => failures < MaxFailures
    /\ \E f0 \in {CreateDirAll(CreateDirAll(fs, PathConfigs[r].source),
                               PathConfigs[r].destination)} :
         \E todo \in {SyncRemovals(f0, r)} :
           /\ failAt \in 0..Len(todo)
           /\ \E out \in {RemoveAll(f0, todo, failAt, 1)} :
                /\ fs' = out.fs
                /\ task' = [task EXCEPT ![r] = IF out.ok THEN "synced"
                                               ELSE "panicked"]
    /\ failures' = IF failAt # 0 THEN failures + 1 ELSE failures
    /\ UNCHANGED <<main_state, chan_open, chan, detected_files, moved_files,
                   movers, notified>>

SyncWatcherStart_BeforeSync(r, ok) ==
    /\ Alive
    /\ r \in DOMAIN task /\ r \in SyncRoots
    /\ task[r] = "spawned"
    /\ task' = [task EXCEPT ![r] = IF ok THEN "running" ELSE AfterStart(FALSE)]
    /\ chan_open' = [chan_open EXCEPT ![r] = ok]
    /\ UNCHANGED <<fs, main_state, chan, detected_files, moved_files, movers,
                   notified, failures>>

\* SyncWatcher::start after sync_dirs, up to the receive loop
SyncWatcherStart(r, ok) ==
    /\ Alive
    /\ r \in DOMAIN task /\ r \in SyncRoots
    /\ task[r] = "synced"
    /\ task' = [task EXCEPT ![r] = IF ok THEN "running" ELSE AfterStart(FALSE)]
    /\ chan_open' = [chan_open EXCEPT ![r] = ok]
    /\ UNCHANGED <<fs, main_state, chan, detected_files, moved_files, movers,
                   notified, failures>>

\* SyncWatcher::copy_file for one path.  failAt = 1: create_dir_all fails
\* (unwrap panics); failAt = 2: the copy fails (logged).
SyncCopyOne(f, r, path, failAt) ==
    LET destination_name == Mirrored(r, path)
        parent == Parent(destination_name)
    IN  IF failAt = 1 \/ ~CanCreateDirAll(f, parent)
        THEN [ok |-> FALSE, fs |-> f]
        ELSE Only({IF failAt = 2 \/ ~CanCopy(g, path, destination_name)
                   THEN [ok |-> TRUE, fs |-> g]
                   ELSE [ok |-> TRUE, fs |-> copy_file(g, path, destination_name)] :
                       g \in {CreateDirAll(f, parent)}})

\* SyncWatcher::delete_file for one path.  failAt = 1: remove_file fails
\* (logged); failAt = 2: remove_dir of the parent fails (unwrap panics).
SyncDeleteOne(f, r, path, failAt) ==
    LET destination_path == Mirrored(r, path)
        parent == Parent(destination_path)
    IN  IF failAt = 1 \/ ~IsFile(f, destination_path)
        THEN [ok |-> TRUE, fs |-> f]
        ELSE Only({IF ReadDir(g, parent) = {}
                   THEN IF failAt = 2 THEN [ok |-> FALSE, fs |-> g]
                        ELSE [ok |-> TRUE, fs |-> Del(g, {parent})]
                   ELSE [ok |-> TRUE, fs |-> g] :
                       g \in {Del(f, {destination_path})}})

\* the loop over event.paths; an injected error strikes the first path
RECURSIVE SyncHandle(_, _, _, _, _)
SyncHandle(f, r, kind, paths, failAt) ==
    IF paths = <<>> THEN [ok |-> TRUE, fs |-> f]
    ELSE Only({IF out.ok THEN SyncHandle(out.fs, r, kind, Tail(paths), 0) ELSE out :
                  out \in {IF kind = "Create"
                           THEN SyncCopyOne(f, r, Head(paths), failAt)
                           ELSE SyncDeleteOne(f, r, Head(paths), failAt)}})

\* one turn of the receive loop of SyncWatcher::start
SyncWatcherRecv(r, failAt) ==
    /\ Alive
    /\ r \in DOMAIN task /\ r \in SyncRoots
    /\ task[r] = "running"
    /\ chan[r] # <<>>
    /\ failAt # 0 => failures < MaxFailures
    /\ \E out \in {SyncHandle(fs, r, Head(chan[r]).kind, Head(chan[r]).paths,
                              failAt)} :
           /\ fs' = out.fs
           /\ task' = [task EXCEPT ![r] = IF out.ok THEN "running" ELSE "panicked"]
    /\ chan' = [chan EXCEPT ![r] = Tail(@)]
    /\ failures' = IF failAt # 0 THEN failures + 1 ELSE failures
    /\ UNCHANGED <<main_state, chan_open, detected_files, moved_files, movers,
                   notified>>

\* the callback of the watcher: Create and Remove events are sent, events
\* of every other kind are dropped
Callback(r, kind, path) ==
    IF kind \in {"Create", "Remove"}
    THEN [chan EXCEPT ![r] = Append(@, [kind |-> kind, paths |-> <<path>>])]
    ELSE chan

\* a change the user makes in the watched source tree, and its notification
SourceChange(r, kind, path, f) ==
    /\ r \in DOMAIN task /\ r \in SyncRoots
    /\ task[r] = "running" /\ chan_open[r]
    /\ notified < MaxEvents
    /\ IsPrefixOf(PathConfigs[r].source, path)
    /\ fs' = f
    /\ chan' = Callback(r, kind, path)
    /\ notified' = notified + 1
    /\ UNCHANGED <<task, main_state, chan_open, detected_files, moved_files,
                   movers, failures>>

\* the user creates an empty file, to be filled later
UserCreatesFile(r, rel) ==
    LET path == Join(PathConfigs[r].source, rel)
    IN  /\ ~Exists(fs, path) /\ IsDir(fs, Parent(path)) /\ Exists(fs, Parent(path))
        /\ SourceChange(r, "Create", path, Put(fs, path, File(0)))

\* the user writes the content of a file created empty
UserWritesFile(r, rel, n) ==
    LET path == Join(PathConfigs[r].source, rel)
    IN  /\ IsFile(fs, path) /\ fs[path].size = 0
        /\ SourceChange(r, "Modify", path, Put(fs, path, File(n)))

UserCreatesDir(r, rel) ==
    LET path == Join(PathConfigs[r].source, rel)
    IN  /\ ~Exists(fs, path) /\ IsDir(fs, Parent(path)) /\ Exists(fs, Parent(path))
        /\ SourceChange(r, "Create", path, Put(fs, path, Dir))

\* the user removes a file or an empty directory
UserRemoves(r, rel) ==
    LET path == Join(PathConfigs[r].source, rel)
    IN  /\ Exists(fs, path) /\ ReadDir(fs, path) = {}
        /\ SourceChange(r, "Remove", path, Del(fs, {path}))

InitSync ==
    \E r \in SyncRoots :
        \E s \in TreesAt(PathConfigs[r].source),
           d \in TreesAt(PathConfigs[r].destination) : InitWith({r}, s @@ d)

NextSync ==
    \/ \E r \in SyncRoots, failAt \in 0..4 : SyncDirs(r, failAt)
    \/ \E r \in SyncRoots, ok \in BOOLEAN : SyncWatcherStart(r, ok)
    \/ \E r \in SyncRoots, rel \in {FileB, FileC} : UserCreatesFile(r, rel)
    \/ \E r \in SyncRoots, rel \in {FileB, FileC}, n \in Sizes : UserWritesFile(r, rel, n)
    \/ \E r \in SyncRoots : UserCreatesDir(r, DirA)
    \/ \E r \in SyncRoots, rel \in {DirA, FileB, FileC} : UserRemoves(r, rel)
    \/ \E r \in SyncRoots, failAt \in 0..2 : SyncWatcherRecv(r, failAt)
    \/ MainJoinAll

SpecSync == InitSync /\ [][NextSync]_vars

----------------------------------------------------------------------------
(* Copy mode: the claims *)

\* a partial marker, as the writer names it: the name ends with the suffix
IsPartialMarker(p) == IsSuffixOf(PARTIAL, Last(p))

HasMarkerUnder(f, p) == \E q \in Under(f, p) \ {p} : IsPartialMarker(q)

MoversFor(ms, p) == {i \in DOMAIN ms : ms[i].detected_file = p}

\* a step of the external writer: only the filesystem changes
WriterStep ==
    /\ fs' # fs
    /\ UNCHANGED <<task, main_state, chan_open, chan, detected_files,
                   moved_files, movers, notified, failures>>

\* a turn of the receive loop of root r
RecvStep(r) == chan[r] # <<>> /\ chan'[r] = Tail(chan[r])

\* a copy attempt of the i-th Mover
CopyStep(i) ==
    /\ i \in DOMAIN movers /\ movers[i].state = "copying"
    /\ movers'[i].state # "copying"

\* C1: every path in DetectedFiles has exactly one Mover and no other path
\* has one; a receive turn leaves every non-marker path of its event in
\* DetectedFiles with exactly one Mover, and an event whose paths were all
\* detected before changes neither the registry nor the Movers.
C1_AtMostOnce ==
    [][/\ \A i \in DOMAIN movers' :
              /\ movers'[i].detected_file \in detected_files'
              /\ Cardinality(MoversFor(movers', movers'[i].detected_file)) = 1
       /\ \A p \in detected_files' : MoversFor(movers', p) # {}
       /\ \A r \in DOMAIN task : RecvStep(r) =>
              LET paths == Head(chan[r]).paths
                  seen == {paths[k] : k \in DOMAIN paths}
              IN  /\ \A p \in seen : IsPartialMarker(p) \/ p \in detected_files'
                  /\ seen \subseteq detected_files =>
                         /\ detected_files' = detected_files
                         /\ movers' = movers]_vars

\* a second Created event for a detected path is waiting in the channel
\* while the path's Mover has not finished probing
C1_Witness ==
    \E r \in DOMAIN task : \E i \in DOMAIN movers :
        /\ chan[r] # <<>>
        /\ \E k \in DOMAIN Head(chan[r]).paths :
               Head(chan[r]).paths[k] = movers[i].detected_file
        /\ ~IsPartialMarker(movers[i].detected_file)
        /\ movers[i].state = "waiting"

\* C2: no copy attempt of a Mover is made in a state where an object named
\* with the partial-marker suffix lies under the detected path.
C2_NoCopyWhileMarker ==
    [][\A i \in DOMAIN movers :
           CopyStep(i) => ~HasMarkerUnder(fs, movers[i].detected_file)]_vars

\* C10: no step of the watcher or of a Mover removes an object from the
\* filesystem, and none changes the source tree.
C10_NeverDeletes ==
    [][~WriterStep =>
           /\ DOMAIN fs \subseteq DOMAIN fs'
           /\ \A p \in DOMAIN fs : fs'[p].kind = fs[p].kind
           /\ Under(fs', Src) = Under(fs, Src)
           /\ \A p \in Under(fs, Src) : fs'[p] = fs[p]]_vars

\* a Mover has copied a directory and ended
C10_Witness ==
    \E i \in DOMAIN movers :
        /\ movers[i].state = "done"
        /\ Exists(fs, movers[i].to) /\ IsDir(fs, movers[i].to)
        /\ ReadDir(fs, movers[i].to) # {}

\* the attempt the i-th Mover would make now succeeds unless an I/O error
\* strikes it
AttemptCanSucceed(i) ==
    \E ops \in {MoveOps(fs, movers[i])} : RunOps(fs, ops, 0, 1).ok

\* C7: if from some time on no marker lies under the detected path and a
\* copy attempt can succeed, the Mover reaches Done with its destination in
\* MovedFiles; every copy attempt ends in Done, with the destination
\* recorded, or back in Waiting, with nothing recorded by it.
C7_RetryLiveness ==
    /\ <>[](~HasMarkerUnder(fs, movers[1].detected_file) /\ AttemptCanSucceed(1))
           => <>(movers[1].state = "done" /\ movers[1].to \in moved_files)
    /\ [][CopyStep(1) =>
              \/ /\ movers'[1].state = "done"
                 /\ moved_files' = moved_files \cup {movers[1].to}
              \/ /\ movers'[1].state = "waiting"
                 /\ moved_files' = moved_files]_vars

\* a Mover of a file is Done although an I/O error was injected: with the
\* error in create_folder the copy of a file never succeeds, so an attempt
\* of this Mover failed before a later one succeeded
C7_Witness ==
    /\ movers[1].state = "done"
    /\ movers[1].to \in moved_files
    /\ IsFile(fs, movers[1].detected_file)
    /\ failures > 0

\* C8: once computed, the destination of a Mover is
\* <destination>/<title>/<filename> when subfolder placement is enabled and
\* a title was extracted, and <destination>/<filename> otherwise.
C8_DestinationNaming ==
    \A i \in DOMAIN movers :
        LET m == movers[i]
            name == m.detected_file[Len(m.detected_file)]
        IN  m.state # "detected" =>
                /\ m.subfolder /\ m.title # <<>>
                       => m.to = m.destination \o <<m.title[1], name>>
                /\ ~(m.subfolder /\ m.title # <<>>)
                       => m.to = m.destination \o <<name>>

\* a Mover with placement enabled and a title ended, after a retry, with
\* the copy at <destination>/<title>/<filename>
C8_Witness ==
    \E i \in DOMAIN movers :
        /\ movers[i].state = "done"
        /\ movers[i].subfolder /\ movers[i].title # <<>>
        /\ failures > 0
        /\ Len(movers[i].to) = Len(movers[i].destination) + 2
        /\ Exists(fs, movers[i].to)

\* C9: a root's task stops only through a failure of its own: its watcher
\* could not be attached (the task panicked) or its channel was closed (the
\* task finished); no task is stopped from outside.
C9_FailureContainment ==
    \A r \in DOMAIN task : task[r] \in {"spawned", "running", "panicked", "finished"}

C13_MarkersDropped ==
    [][\A r \in DOMAIN task : RecvStep(r) =>
           \A k \in DOMAIN Head(chan[r]).paths :
               LET p == Head(chan[r]).paths[k]
               IN  IsPartialMarker(p) =>
                       /\ p \notin detected_files'
                       /\ MoversFor(movers', p) = {}]_vars

\* C14: if from some time on the detected object exists, no marker lies
\* under it and the destination directory exists or can be created, the
\* Mover reaches Done.
C14_DirectoryEnsured ==
    <>[](/\ Exists(fs, movers[1].detected_file)
         /\ ~HasMarkerUnder(fs, movers[1].detected_file)
         /\ CanCreateDirAll(fs, DestinationFolder(movers[1])))
        => <>(movers[1].state = "done")

\* C16: the receive loop of a running root can take its turn in every state
\* where an event waits, whatever the Movers are doing; a turn takes the
\* oldest event and spawns a Mover for every path of it that is new and no
\* marker, leaving the earlier Movers as they are; an event enters the
\* channel behind those that wait.
C16_BridgeNeverBlocks ==
    /\ [](\A r \in DOMAIN task :
              (r \in CopyRoots /\ task[r] = "running" /\ chan[r] # <<>>)
                  => ENABLED CopyWatcherRecv(r))
    /\ [][\A r \in DOMAIN task :
              /\ chan'[r] # chan[r] =>
                     \/ RecvStep(r)
                     \/ /\ Len(chan'[r]) = Len(chan[r]) + 1
                        /\ SubSeq(chan'[r], 1, Len(chan[r])) = chan[r]
              /\ RecvStep(r) =>
                     /\ SubSeq(movers', 1, Len(movers)) = movers
                     /\ \A k \in DOMAIN Head(chan[r]).paths :
                            LET p == Head(chan[r]).paths[k]
                            IN  (p \notin detected_files /\ ~IsPartialMarker(p)) =>
                                    \E i \in DOMAIN movers' \ DOMAIN movers :
                                        /\ movers'[i].detected_file = p
                                        /\ movers'[i].state = "detected"]_vars

\* a second Mover was spawned while the first, whose attempt failed, was
\* still retrying
C16_Witness ==
    /\ Len(movers) >= 2
    /\ movers[1].state \in {"waiting", "copying"}
    /\ failures > 0

\* C17: a receive turn of a Copy root leaves, for every path of its event
\* that is no marker, a Mover for that path towards the root's own
\* destination, whatever the other roots have seen.
C17_RootsDoNotInterfere ==
    [][\A r \in DOMAIN task : (r \in CopyRoots /\ RecvStep(r)) =>
           \A k \in DOMAIN Head(chan[r]).paths :
               LET p == Head(chan[r]).paths[k]
               IN  ~IsPartialMarker(p) =>
                       \E i \in DOMAIN movers' :
                           /\ movers'[i].detected_file = p
                           /\ movers'[i].destination = PathConfigs[r].destination]_vars

\* C19: the destinations of two Movers are different paths, and neither
\* lies inside the other.
C19_NoCollision ==
    \A i, j \in DOMAIN movers :
        (i # j /\ movers[i].to # <<>> /\ movers[j].to # <<>>)
            => ~IsPrefixOf(movers[i].to, movers[j].to)

\* a copy attempt of the i-th Mover that writes a file
WritesFile(i) ==
    /\ CopyStep(i)
    /\ \/ \E p \in DOMAIN fs' : IsFile(fs', p) /\ ~Exists(fs, p)
       \/ movers'[i].state = "done" /\ IsFile(fs, movers[i].detected_file)

\* C20: no copy attempt writes a file while the detected object of its
\* Mover lies in, or is, a detected directory under which a marker lies.
C20_NothingUnderInProgress ==
    [][\A i \in DOMAIN movers : WritesFile(i) =>
           \A d \in detected_files :
               ~(/\ Exists(fs, d) /\ IsDir(fs, d)
                 /\ IsPrefixOf(d, movers[i].detected_file)
                 /\ HasMarkerUnder(fs, d))]_vars

----------------------------------------------------------------------------
(* Mirror mode: the claims *)

FilesUnder(f, root) == {p \in Under(f, root) : IsFile(f, p)}

\* the (relative path, size) fingerprints of the files of a tree
Fingerprints(f, root) ==
    {[path |-> StripPrefix(p, root), size |-> f[p].size] : p \in FilesUnder(f, root)}

\* a startup pass of root r that completed
SyncPass(r) == r \in SyncRoots /\ task[r] = "spawned" /\ task'[r] = "synced"

\* C3: a startup pass leaves every file that is in both trees at the same
\* relative path with the same size as it was, on both sides, and every
\* file it deletes had a fingerprint absent from the other tree.
C3_MatchesLeftAlone ==
    [][\A r \in DOMAIN task : SyncPass(r) =>
           LET src == PathConfigs[r].source
               dst == PathConfigs[r].destination
               common == Fingerprints(fs, src) \cap Fingerprints(fs, dst)
           IN  /\ \A fp \in common : \A root \in {src, dst} :
                      /\ Exists(fs', Join(root, fp.path))
                      /\ fs'[Join(root, fp.path)] = fs[Join(root, fp.path)]
               /\ \A p \in FilesUnder(fs, src) \ DOMAIN fs' :
                      [path |-> StripPrefix(p, src), size |-> fs[p].size]
                          \notin Fingerprints(fs, dst)
               /\ \A p \in FilesUnder(fs, dst) \ DOMAIN fs' :
                      [path |-> StripPrefix(p, dst), size |-> fs[p].size]
                          \notin Fingerprints(fs, src)]_vars

\* C4: after a startup pass that completed, the fingerprints of the source
\* are those of the destination, and they are the fingerprints the two
\* trees had in common before the pass; the pass created no file.
C4_Convergence ==
    [][\A r \in DOMAIN task : SyncPass(r) =>
           LET src == PathConfigs[r].source
               dst == PathConfigs[r].destination
           IN  /\ Fingerprints(fs', src) = Fingerprints(fs', dst)
               /\ Fingerprints(fs', src)
                      = Fingerprints(fs, src) \cap Fingerprints(fs, dst)
               /\ \A p \in DOMAIN fs' : IsFile(fs', p) =>
                      Exists(fs, p) /\ fs[p] = fs'[p]]_vars

\* C5: once the loop of a running root has handled every event, and no I/O
\* error has struck, every file of the source has its mirror in the
\* destination, a file of the same size.
C5_LiveCreate ==
    \A r \in DOMAIN task :
        (r \in SyncRoots /\ task[r] = "running" /\ chan[r] = <<>> /\ failures = 0)
            => \A p \in FilesUnder(fs, PathConfigs[r].source) :
                   /\ IsFile(fs, Mirrored(r, p))
                   /\ fs[Mirrored(r, p)].size = fs[p].size

\* C6: a turn of the loop on a Removed event that no I/O error strikes
\* leaves nothing at the mirrored path, leaves the parent of the mirrored
\* path exactly when something else is in it, and leaves the grandparent.
C6_LiveRemove ==
    [][\A r \in DOMAIN task :
           (/\ r \in SyncRoots /\ RecvStep(r)
            /\ Head(chan[r]).kind = "Remove"
            /\ failures' = failures)
               => LET d == Mirrored(r, Head(chan[r]).paths[1])
                      parent == Parent(d)
                  IN  /\ Under(fs', d) = {}
                      /\ Exists(fs, parent) =>
                             (Exists(fs', parent) <=> ReadDir(fs, parent) \ {d} # {})
                      /\ Exists(fs, Parent(parent)) => Exists(fs', Parent(parent))]_vars

\* C11: the task of a Mirror root leaves its start exactly once, through a
\* startup pass; the bridge is attached only after a completed pass; before
\* that the channel is empty and closed and no event is handled; after the
\* pass the filesystem changes only through the user and the handling of
\* live events.
C11_ReconcileBeforeAttach ==
    [][\A r \in DOMAIN task : r \in SyncRoots =>
           /\ task'[r] = "spawned" => task[r] = "spawned"
           /\ (task'[r] = "synced" /\ task[r] # "synced") => task[r] = "spawned"
           /\ (task'[r] = "running" /\ task[r] # "running") => task[r] = "synced"
           /\ (chan_open'[r] /\ ~chan_open[r]) => task[r] = "synced"
           /\ task[r] \in {"spawned", "synced"} =>
                  /\ chan[r] = <<>> /\ chan'[r] = <<>>
                  /\ ~chan_open[r]
           /\ RecvStep(r) => task[r] = "running"
           /\ (task[r] # "spawned" /\ ~RecvStep(r) /\ notified' = notified)
                  => fs' = fs]_vars

\* a live event waits in the channel of a root whose startup pass deleted
\* a file of the destination
C11_Witness ==
    \E r \in DOMAIN task :
        /\ r \in SyncRoots /\ task[r] = "running"
        /\ chan[r] # <<>>
        /\ FilesUnder(fs, PathConfigs[r].destination) = {}
\* C15: a turn of the loop of a Mirror root, whether a filesystem call of
\* it fails or not, leaves the root's task running.
C15_FailuresDropped ==
    [][\A r \in DOMAIN task :
           (r \in SyncRoots /\ RecvStep(r)) => task'[r] = "running"]_vars
\* C18: while a Mirror root runs, its destination directory exists.
C18_DestinationRootKept ==
    \A r \in DOMAIN task :
        (r \in SyncRoots /\ task[r] = "running")
            => Exists(fs, PathConfigs[r].destination)

====
